---------------------------- MODULE Spec2Model ----------------------------
(***************************************************************************)
(* SmtpMsg plugin (plugins/smtpmsg/__init__.py): the dispatch pipeline     *)
(* master_program -> _determine_server -> _send_to_smtp, run by the event  *)
(* handler send() on the host's event threads and by init_plugin's test    *)
(* run, serialised by the module-level threading.Lock.                     *)
(*                                                                         *)
(* Python values: None is "None", True/False of a tri-state are "True" and *)
(* "False".  A configured field of server slot X holds the token X (the    *)
(* value stored for that slot) or "None" (unset).                          *)
(***************************************************************************)
EXTENDS Integers, Sequences, FiniteSets, TLC

\* ------------------------------------------------------------------ bounds
\* number of event-bus threads that may run send() concurrently
NumSenders == 1

\* ------------------------------------------------------------- constants
None == "None"
InitThread == 0
Senders == 1..NumSenders
Threads == {InitThread} \cup Senders
NoThread == -1

\* smtp_value: 0 is the primary ("main") server, 1 the secondary.
Slots == {0, 1}
\* smtp_type of _send_to_smtp
smtp_type(smtp_value) == IF smtp_value = 0 THEN "main" ELSE "secondary"

\* The fields _get_dict_value requires of a slot.
RequiredFields == {"host", "port", "mail", "password"}

\* a template file that does not exist
Missing == "missing"
\* a config dict without the key "content"
Absent == "absent"

VARIABLES
    \* plugin flags (self._enabled, self._main, self._secondary, self._test,
    \* self._other_msgtypes) and the notification-type filter self._msgtypes
    enabled, main, secondary, test, other_msgtypes, msgtypes,
    \* self._send_image
    send_image,
    \* self._main_smtp_* / self._secondary_smtp_*: slot -> field -> value
    smtp_settings,
    \* self._save, self._reset, self._enabled_customizable_mail_template and
    \* self._content (the template text held in the configuration)
    save, reset, custom_on, content,
    \* the text of the files default_template and custom_template, or Missing
    default_file, custom_file,
    \* self._host, _port, _encryption, _sender_mail, _password
    conn,
    \* the configuration persisted by update_config
    stored,
    \* the module-level lock: its holder, or NoThread
    lock,
    \* per thread: position, and master_program's / _send_to_smtp's locals
    pc, msg_type, smtp_value, m_success, s_success, server,
    \* per thread: the image argument of master_program
    image,
    \* per thread: the values _msg_parameter_validation returned
    params,
    \* per thread and slot: the session the attempt opened, the stages it ran
    \* and the stage whose exception reached the except block of _send_to_smtp
    sess, stages, error,
    \* per thread and slot: what the image-embedding step of the attempt did
    embed,
    \* the branch the last call of send() took
    sent,
    \* the flags were written while the running dispatch held the lock
    touched,
    \* per thread: how the dispatch ended and the summary it computed
    outcome, summary

flagVars == <<enabled, main, secondary, test, other_msgtypes, msgtypes,
              send_image>>
tplVars == <<save, reset, custom_on, content, default_file, custom_file>>
cfgVars == <<flagVars, smtp_settings, tplVars>>
histVars == <<sess, stages, error, outcome, summary, embed>>
dispVars == <<msg_type, image, smtp_value, m_success, s_success, server,
              params, histVars>>
\* the plugin's own state, and with it the record of the last send()
progVars == <<cfgVars, conn, stored, lock, pc, dispVars, touched>>
vars == <<progVars, sent>>

\* ------------------------------------------------------------ input sets
\* NotificationType members an event may carry, and the values of the
\* msgtypes filter the configuration may hold.
NotificationTypes == {"A", "B"}
MsgTypes == {None} \cup NotificationTypes \cup {"Other"}
Fields == RequiredFields \cup {"encryption"}
SlotSetting(slot, unset) ==
    [f \in Fields |-> IF f \in unset THEN None ELSE smtp_type(slot)]
\* server settings a config may hold: complete, or one required field of one
\* slot unset
SettingsInputs ==
    {[slot \in Slots |-> SlotSetting(slot, {})]}
    \cup {[slot \in Slots |-> SlotSetting(slot, IF slot = s THEN {f} ELSE {})] :
            s \in Slots, f \in RequiredFields}

\* The config dicts handed to init_plugin.  Each specification draws them
\* from one of these sets: the failover flags vary in FlagConfigs, the
\* server settings in SettingsConfigs.
AllSet == [slot \in Slots |-> SlotSetting(slot, {})]
FlagConfigs ==
    [enabled : {TRUE}, main : BOOLEAN, secondary : BOOLEAN, test : BOOLEAN,
     other_msgtypes : {FALSE}, msgtypes : {{}}, send_image : {FALSE},
     settings : {AllSet},
     save : {FALSE}, reset : {FALSE}, custom_on : {FALSE},
     content : {Absent}]
SettingsConfigs ==
    [enabled : {TRUE}, main : {TRUE}, secondary : {TRUE}, test : {FALSE},
     other_msgtypes : {FALSE}, msgtypes : {{}}, send_image : {FALSE},
     settings : SettingsInputs,
     save : {FALSE}, reset : {FALSE}, custom_on : {FALSE},
     content : {Absent}]
ImageConfigs ==
    [enabled : {TRUE}, main : {TRUE}, secondary : {TRUE}, test : BOOLEAN,
     other_msgtypes : {FALSE}, msgtypes : {{}}, send_image : BOOLEAN,
     settings : {AllSet},
     save : {FALSE}, reset : {FALSE}, custom_on : {FALSE},
     content : {Absent}]
\* template settings: the save and restore buttons, the custom-template
\* switch and the submitted template text ("X", or none)
TemplateConfigs ==
    [enabled : {TRUE}, main : {TRUE}, secondary : {TRUE}, test : {FALSE},
     other_msgtypes : {FALSE}, msgtypes : {{}}, send_image : {FALSE},
     settings : {AllSet},
     save : BOOLEAN, reset : BOOLEAN, custom_on : BOOLEAN,
     content : {"", "X"}]
TypeConfigs ==
    [enabled : {TRUE}, main : {TRUE}, secondary : {TRUE}, test : BOOLEAN,
     other_msgtypes : BOOLEAN, msgtypes : {{}, {"A"}}, send_image : {FALSE},
     settings : {AllSet},
     save : {FALSE}, reset : {FALSE}, custom_on : {FALSE},
     content : {Absent}]

\* The image values an event may carry: none, the empty string, a URL with
\* a network scheme ("url_file": a local file of the same name exists), the
\* path of an existing file, a base64 data URI ("datauri_file": a file of
\* that name exists), some other string, and a bytes payload.
ImageInputs ==
    {None, "", "url", "url_file", "file", "datauri", "datauri_file", "text",
     "bytes"}
\* self._test_image, the path the test mail embeds
test_image == "test_image"

\* event.event_data: empty or not, and the keys send() reads
EventInputs ==
    [data : BOOLEAN, channel : BOOLEAN, title : BOOLEAN, text : BOOLEAN,
     type : MsgTypes, image : {None}]
\* one plain event
PlainEvents ==
    [data : {TRUE}, channel : {FALSE}, title : {TRUE}, text : {TRUE},
     type : {None}, image : {None}]
\* events that differ in the type they carry
TypeEvents ==
    [data : {TRUE}, channel : {FALSE}, title : {TRUE}, text : {TRUE},
     type : MsgTypes, image : {None}]
\* events that differ in the image they carry
ImageEvents ==
    [data : {TRUE}, channel : {FALSE}, title : {TRUE}, text : {TRUE},
     type : {None}, image : ImageInputs]

\* ---------------------------------------------------------------- helpers
Py(b) == IF b THEN "True" ELSE "False"
NoSessions == [s \in Slots |-> "none"]
NoStages == [s \in Slots |-> <<>>]
NoErrors == [s \in Slots |-> None]
NoParams == [msg_type |-> None, synthetic |-> FALSE, image |-> None]
NoSummary == [msg |-> None, test_wording |-> FALSE, returned |-> None]
NoEmbedRecord ==
    [image |-> None, send_image |-> FALSE, class |-> None,
     result |-> [level |-> 0, attached |-> FALSE, raised |-> FALSE]]
NoEmbed == [s \in Slots |-> NoEmbedRecord]

Init ==
    /\ enabled = FALSE
    /\ main = TRUE
    /\ secondary = FALSE
    /\ test = FALSE
    /\ other_msgtypes = FALSE
    /\ msgtypes = {}
    /\ send_image = FALSE
    /\ smtp_settings = [slot \in Slots |-> SlotSetting(slot, RequiredFields)]
    /\ save = FALSE
    /\ reset = FALSE
    /\ custom_on = FALSE
    /\ content = ""
    /\ default_file = "default"
    /\ custom_file = Missing
    /\ conn = [f \in Fields |-> None]
    /\ stored = [enabled |-> FALSE, test |-> FALSE]
    /\ lock = NoThread
    /\ pc = [t \in Threads |-> "idle"]
    /\ msg_type = [t \in Threads |-> None]
    /\ image = [t \in Threads |-> None]
    /\ smtp_value = [t \in Threads |-> 0]
    /\ m_success = [t \in Threads |-> None]
    /\ s_success = [t \in Threads |-> None]
    /\ server = [t \in Threads |-> None]
    /\ params = [t \in Threads |-> NoParams]
    /\ sess = [t \in Threads |-> NoSessions]
    /\ stages = [t \in Threads |-> NoStages]
    /\ error = [t \in Threads |-> NoErrors]
    /\ touched = FALSE
    /\ outcome = [t \in Threads |-> None]
    /\ summary = [t \in Threads |-> NoSummary]
    /\ embed = [t \in Threads |-> NoEmbed]
    /\ sent = None

\* ------------------------------------------------------------ init_plugin
\* update_config(config): the flags persisted by __update_config
UpdateConfig ==
    stored' = [enabled |-> enabled', test |-> test']

\* init_plugin, lines 142-168: the fields are read from the config dict, which
\* is the configuration the host has stored for the plugin
\* ("if config:" is false on a start with nothing stored: the fields stay).
\* Line 168 evaluates custom_template.read_text() as the default of
\* config.get: with no custom template file it raises, after the other
\* fields were assigned, and init_plugin ends there.
InitPlugin(given, config) ==
    /\ pc[InitThread] = "idle"
    /\ IF ~given
       THEN UNCHANGED cfgVars
       ELSE /\ enabled' = config.enabled
            /\ main' = config.main
            /\ secondary' = config.secondary
            /\ test' = config.test
            /\ other_msgtypes' = config.other_msgtypes
            /\ msgtypes' = config.msgtypes
            /\ send_image' = config.send_image
            /\ smtp_settings' = config.settings
            /\ save' = config.save
            /\ reset' = config.reset
            /\ custom_on' = config.custom_on
            /\ content' = IF custom_file = Missing THEN content
                          ELSE IF config.content = Absent THEN custom_file
                          ELSE config.content
            /\ UNCHANGED <<default_file, custom_file>>
    /\ stored' = IF given
                 THEN [enabled |-> config.enabled, test |-> config.test]
                 ELSE stored
    /\ pc' = [pc EXCEPT ![InitThread] =
                IF given /\ custom_file = Missing THEN "idle"
                ELSE "templates"]
    /\ touched' = (touched \/ (given /\ lock # NoThread))
    /\ UNCHANGED <<conn, lock, dispVars, sent>>

\* ---------------------------------- _check_path and _template_settings
\* What the file system answers to default_template.replace(custom_template):
\* the file is renamed, or the rename fails (the two directories are on
\* different file systems, or the plugin directory is read-only).
RenameAnswers == {"ok", "fail"}

\* the template state the two steps work on
TemplateState ==
    [default |-> default_file, custom |-> custom_file, content |-> content,
     save |-> save, reset |-> reset, raised |-> FALSE, updated |-> FALSE]

\* __check_template_file, lines 213-246
check_template_file(f, ans) ==
    IF f.custom = Missing
    THEN IF f.content # ""
         THEN [f EXCEPT !.custom = f.content]
         ELSE IF f.default = Missing \/ ans = "fail"
              THEN [f EXCEPT !.custom = "", !.raised = TRUE]
              ELSE [f EXCEPT !.custom = f.default, !.default = Missing]
    ELSE IF ~f.save /\ ~f.reset /\ f.content # f.custom
         THEN [f EXCEPT !.content = f.custom, !.updated = TRUE]
         ELSE f

\* _template_settings, lines 249-285
template_settings(f) ==
    IF f.save
    THEN [f EXCEPT !.custom = f.content, !.save = FALSE, !.reset = FALSE,
                   !.updated = TRUE]
    ELSE IF f.reset
    THEN IF f.default = Missing
         THEN [f EXCEPT !.raised = TRUE]
         ELSE [f EXCEPT !.custom = f.default, !.content = f.default,
                        !.reset = FALSE, !.updated = TRUE]
    ELSE f

\* lines 170-171 of init_plugin
check_and_settle(f, ans) ==
    IF check_template_file(f, ans).raised THEN check_template_file(f, ans)
    ELSE template_settings(check_template_file(f, ans))

\* init_plugin, lines 170-171: an exception of either step ends init_plugin
Templates(ans) ==
    /\ pc[InitThread] = "templates"
    /\ ans \in RenameAnswers
    /\ LET f == check_and_settle(TemplateState, ans) IN
        /\ default_file' = f.default
        /\ custom_file' = f.custom
        /\ content' = f.content
        /\ save' = f.save
        /\ reset' = f.reset
        /\ stored' = IF f.updated
                     THEN [enabled |-> enabled, test |-> test] ELSE stored
        /\ pc' = [pc EXCEPT ![InitThread] =
                    IF f.raised THEN "idle" ELSE "run_plugin"]
    /\ UNCHANGED <<flagVars, smtp_settings, custom_on, conn, lock, dispVars,
                   touched, sent>>

\* _run_plugin up to the call of master_program
RunPlugin ==
    /\ pc[InitThread] = "run_plugin"
    /\ IF enabled /\ main = FALSE /\ secondary = FALSE
       THEN /\ enabled' = FALSE
            /\ test' = FALSE
            /\ UpdateConfig
            /\ pc' = [pc EXCEPT ![InitThread] = "idle"]
            /\ touched' = (touched \/ lock # NoThread)
            /\ UNCHANGED <<main, secondary, other_msgtypes, msgtypes,
                           send_image>>
       ELSE /\ pc' = [pc EXCEPT ![InitThread] =
                        IF enabled /\ test THEN "lock" ELSE "idle"]
            /\ UNCHANGED <<flagVars, stored, touched>>
    /\ msg_type' = [msg_type EXCEPT ![InitThread] = None]
    /\ image' = [image EXCEPT ![InitThread] = None]
    /\ UNCHANGED <<smtp_settings, tplVars, conn, lock, smtp_value, m_success,
                   s_success, server, params, histVars, sent>>

\* the frame of a dispatch is left: its locals and what it did are gone
ForgetDispatch(t) ==
    /\ msg_type' = [msg_type EXCEPT ![t] = None]
    /\ image' = [image EXCEPT ![t] = None]
    /\ smtp_value' = [smtp_value EXCEPT ![t] = 0]
    /\ m_success' = [m_success EXCEPT ![t] = None]
    /\ s_success' = [s_success EXCEPT ![t] = None]
    /\ server' = [server EXCEPT ![t] = None]
    /\ params' = [params EXCEPT ![t] = NoParams]
    /\ sess' = [sess EXCEPT ![t] = NoSessions]
    /\ stages' = [stages EXCEPT ![t] = NoStages]
    /\ error' = [error EXCEPT ![t] = NoErrors]
    /\ outcome' = [outcome EXCEPT ![t] = None]
    /\ summary' = [summary EXCEPT ![t] = NoSummary]
    /\ embed' = [embed EXCEPT ![t] = NoEmbed]

\* _run_plugin after master_program returned: the test flag is cleared
AfterTest ==
    /\ pc[InitThread] = "after_test"
    /\ test' = FALSE
    /\ UNCHANGED <<enabled, main, secondary, other_msgtypes, msgtypes,
                   send_image>>
    /\ UpdateConfig
    /\ pc' = [pc EXCEPT ![InitThread] = "idle"]
    /\ touched' = (touched \/ lock # NoThread)
    /\ UNCHANGED <<smtp_settings, tplVars, conn, lock, dispVars, sent>>

\* ------------------------------------------------------------------ send
\* (a send() without the channel check)
SendResult_NoChannelCheck(e) ==
    IF ~enabled THEN "disabled"
    ELSE IF ~e.data THEN "empty"
    ELSE IF ~e.title /\ ~e.text THEN "rejected"
    ELSE "dispatch"

\* (a send() without the title/text check)
SendResult_NoBlankCheck(e) ==
    IF ~enabled THEN "disabled"
    ELSE IF ~e.data THEN "empty"
    ELSE IF e.channel THEN "channel"
    ELSE "dispatch"

\* What send() does with an event, lines 1477-1498.
SendResult(e) ==
    IF ~enabled THEN "disabled"
    ELSE IF ~e.data THEN "empty"
    ELSE IF e.channel THEN "channel"
    ELSE IF ~e.title /\ ~e.text THEN "rejected"
    ELSE IF e.type # None /\ msgtypes # {}
         THEN IF e.type \notin NotificationTypes THEN "error"
              ELSE IF e.type \notin msgtypes /\ ~other_msgtypes
                   THEN "filtered"
                   ELSE "dispatch"
         ELSE "dispatch"

Send(t, e) ==
    /\ pc[t] = "idle"
    /\ IF SendResult(e) = "dispatch"
       THEN /\ pc' = [pc EXCEPT ![t] = "lock"]
            /\ msg_type' = [msg_type EXCEPT ![t] = e.type]
            /\ image' = [image EXCEPT ![t] = e.image]
       ELSE UNCHANGED <<pc, msg_type, image>>
    /\ sent' = SendResult(e)
    /\ UNCHANGED <<cfgVars, conn, stored, lock, smtp_value, m_success,
                   s_success, server, params, histVars, touched>>

\* -------------------------------------------------------- master_program
\* (a dispatch that does not wait for the lock)
LockFree_NoWait == TRUE

\* threading.Lock: "with lock" blocks until the lock is free
LockFree == lock = NoThread

\* with lock: ... m_success = s_success = None
Acquire(t) ==
    /\ pc[t] = "lock"
    /\ LockFree
    /\ lock' = t
    /\ pc' = [pc EXCEPT ![t] = "main"]
    /\ m_success' = [m_success EXCEPT ![t] = None]
    /\ s_success' = [s_success EXCEPT ![t] = None]
    /\ sess' = [sess EXCEPT ![t] = NoSessions]
    /\ stages' = [stages EXCEPT ![t] = NoStages]
    /\ error' = [error EXCEPT ![t] = NoErrors]
    /\ touched' = FALSE
    /\ outcome' = [outcome EXCEPT ![t] = "running"]
    /\ summary' = [summary EXCEPT ![t] = NoSummary]
    /\ embed' = [embed EXCEPT ![t] = NoEmbed]
    /\ params' = [params EXCEPT ![t] = NoParams]
    /\ UNCHANGED <<cfgVars, conn, stored, msg_type, image, smtp_value,
                   server, sent>>

\* _determine_server: the status it returns as "success"
determine_server(v, success) ==
    IF success = None
    THEN IF v = 0 THEN "True" ELSE None
    ELSE IF test THEN Py(secondary)
         ELSE IF success = "True" THEN "False" ELSE Py(secondary)

\* the call of _send_to_smtp: server = None
StartAttempt(t, v) ==
    /\ smtp_value' = [smtp_value EXCEPT ![t] = v]
    /\ server' = [server EXCEPT ![t] = None]
    /\ pc' = [pc EXCEPT ![t] = "validate"]

\* lines 1509-1515: if self._main: ... _determine_server(0, m_success)
CheckMain(t) ==
    /\ pc[t] = "main"
    /\ IF main /\ determine_server(0, m_success[t]) = "True"
       THEN StartAttempt(t, 0)
       ELSE /\ pc' = [pc EXCEPT ![t] = "secondary"]
            /\ UNCHANGED <<smtp_value, server>>
    /\ UNCHANGED <<cfgVars, conn, stored, lock, msg_type, image, m_success,
                   s_success, params, histVars, touched, sent>>

\* line 1516: if self._secondary:
CheckSecondary(t) ==
    /\ pc[t] = "secondary"
    /\ pc' = [pc EXCEPT ![t] = IF secondary THEN "determine" ELSE "report"]
    /\ UNCHANGED <<cfgVars, conn, stored, lock, dispVars, touched, sent>>

\* lines 1517-1522: _determine_server(1, m_success), then the attempt
DetermineSecondary(t) ==
    /\ pc[t] = "determine"
    /\ IF determine_server(1, m_success[t]) = "True"
       THEN StartAttempt(t, 1)
       ELSE /\ pc' = [pc EXCEPT ![t] = "report"]
            /\ UNCHANGED <<smtp_value, server>>
    /\ UNCHANGED <<cfgVars, conn, stored, lock, msg_type, image, m_success,
                   s_success, params, histVars, touched, sent>>

\* ----------------------------------------------------------- _send_to_smtp
\* the stage is entered: kept per slot, in the order the stages ran
Log(t, entries) ==
    stages' = [stages EXCEPT ![t][smtp_value[t]] = @ \o entries]

SetSess(t, st) ==
    sess' = [sess EXCEPT ![t][smtp_value[t]] = st]

\* (a master_program that tries a failed server a second time)
ReturnAttempt_Retry(t, success) ==
    IF /\ success = "False"
       /\ Cardinality({i \in 1..Len(stages[t][smtp_value[t]]) :
                         stages[t][smtp_value[t]][i] = "validate"}) < 2
    THEN /\ pc' = [pc EXCEPT ![t] = "validate"]
         /\ UNCHANGED <<m_success, s_success>>
    ELSE IF smtp_value[t] = 0
    THEN /\ m_success' = [m_success EXCEPT ![t] = success]
         /\ pc' = [pc EXCEPT ![t] = "secondary"]
         /\ UNCHANGED s_success
    ELSE /\ s_success' = [s_success EXCEPT ![t] = success]
         /\ pc' = [pc EXCEPT ![t] = "report"]
         /\ UNCHANGED m_success

\* _send_to_smtp returns success to master_program (lines 1513, 1520)
ReturnAttempt(t, success) ==
    IF smtp_value[t] = 0
    THEN /\ m_success' = [m_success EXCEPT ![t] = success]
         /\ pc' = [pc EXCEPT ![t] = "secondary"]
         /\ UNCHANGED s_success
    ELSE /\ s_success' = [s_success EXCEPT ![t] = success]
         /\ pc' = [pc EXCEPT ![t] = "report"]
         /\ UNCHANGED m_success

\* an exception escapes to master_program, which catches nothing; from is
\* the call of master_program that raised it
Raise(t, from) ==
    /\ pc' = [pc EXCEPT ![t] = "raised"]
    /\ outcome' = [outcome EXCEPT ![t] = from]

\* (an attempt that goes on to transmit after a stage failed)
Caught_GoesOn(t, stage) ==
    /\ pc' = [pc EXCEPT ![t] = "transmit"]
    /\ error' = [error EXCEPT ![t][smtp_value[t]] = stage]

\* an exception of a stage reaches "except Exception" of _send_to_smtp
Caught(t, stage) ==
    /\ pc' = [pc EXCEPT ![t] = "except"]
    /\ error' = [error EXCEPT ![t][smtp_value[t]] = stage]

\* _msg_parameter_validation: the msg_type it returns, "raise" when it raises
validated_msg_type(mt) ==
    IF test THEN "test_mail"
    ELSE IF mt \in NotificationTypes THEN "value_" \o mt
    ELSE IF mt = None THEN ""
    ELSE IF other_msgtypes THEN mt
    ELSE "raise"

\* lines 1651-1654: the image it returns
validated_image(img) ==
    IF test THEN test_image
    ELSE IF img # None THEN img ELSE ""

Validate(t) ==
    /\ pc[t] = "validate"
    /\ Log(t, <<"validate">>)
    /\ IF validated_msg_type(msg_type[t]) = "raise"
       THEN /\ Caught(t, "validate")
            /\ UNCHANGED params
       ELSE /\ pc' = [pc EXCEPT ![t] = "config"]
            /\ params' = [params EXCEPT ![t] =
                    [msg_type |-> validated_msg_type(msg_type[t]),
                     synthetic |-> test,
                     image |-> validated_image(image[t])]]
            /\ UNCHANGED error
    /\ UNCHANGED <<cfgVars, conn, stored, lock, msg_type, image, smtp_value,
                   m_success, s_success, server, sess, outcome, summary,
                   touched, embed, sent>>

\* (a lookup that always reads the primary server's fields)
smtp_settings_dict_Primary(slot) ==
    [f \in Fields |-> smtp_settings[0][f]]

\* __smtp_settings: the dict it builds for a slot, a value for every key
smtp_settings_dict(slot) ==
    [f \in Fields |-> smtp_settings[slot][f]]

\* _get_dict_value raises only on a KeyError of that dict
get_dict_value_raises(slot) ==
    \E f \in Fields : f \notin DOMAIN smtp_settings_dict(slot)

Config(t) ==
    /\ pc[t] = "config"
    /\ Log(t, <<"config">>)
    /\ IF get_dict_value_raises(smtp_value[t])
       THEN /\ Caught(t, "config")
            /\ UNCHANGED conn
       ELSE /\ pc' = [pc EXCEPT ![t] = "connect"]
            /\ conn' = smtp_settings_dict(smtp_value[t])
            /\ UNCHANGED error
    /\ UNCHANGED <<cfgVars, stored, lock, msg_type, image, smtp_value,
                   m_success, s_success, server, params, sess, outcome,
                   summary, touched, embed, sent>>

\* What the SMTP library and the network can answer to
\* _connect_to_smtp_server: "nohost" no connection is made (no host to
\* connect to, ehlo raises), "refused" the connection is not established
\* (timeout, DNS, refused), "rejected" starttls/ehlo/login raises on the
\* open session, "disconnected" the server drops the session (the library
\* closes it), "ok" the session is open and logged in.
ConnectAnswers ==
    IF conn.host = None THEN {"nohost"}
    ELSE {"refused", "rejected", "disconnected", "ok"}

Connect(t, how) ==
    /\ pc[t] = "connect"
    /\ how \in ConnectAnswers
    /\ Log(t, <<"connect">>)
    /\ SetSess(t, CASE how = "nohost" -> "none"
                    [] how = "refused" -> "refused"
                    [] how = "disconnected" -> "closed"
                    [] OTHER -> "open")
    /\ IF how = "ok"
       THEN /\ server' = [server EXCEPT ![t] = "obj"]
            /\ pc' = [pc EXCEPT ![t] = "build"]
            /\ UNCHANGED error
       ELSE /\ Caught(t, "connect")
            /\ UNCHANGED server
    /\ UNCHANGED <<cfgVars, conn, stored, lock, msg_type, image, smtp_value,
                   m_success, s_success, params, outcome, summary, touched,
                   embed, sent>>

\* ------------------------------------- ___msg_build_email_body_embed_image
\* "if image:" (line 1912)
image_truthy(img) == img \notin {None, ""}
\* isinstance(image, str), line 1916
is_str(img) == img # "bytes"
\* parsed_url.scheme in set(urllib.parse.uses_netloc), line 1918
has_net_scheme(img) == img \in {"url", "url_file"}
\* base64_regex.match(image), line 1939
base64_match(img) == img \in {"datauri", "datauri_file"}
\* os.path.isfile(image), line 1927: the file system's answers; whether the
\* test image exists depends on the installation
isfile_answers(img) ==
    IF img = test_image THEN BOOLEAN
    ELSE {img \in {"url_file", "file", "datauri_file"}}

\* What the file system and the network answer to the embed step: whether
\* the image names a file, and whether fetching or reading it works.
EmbedAnswers == [isfile : BOOLEAN, io : {"ok", "fail"}]

\* the branch of lines 1916-1948 the image takes; "none" when no branch is
\* entered (the value is not a string)
classify_image(img, isfile) ==
    IF ~is_str(img) THEN "none"
    ELSE IF has_net_scheme(img) THEN "url"
    ELSE IF isfile THEN "file"
    ELSE IF base64_match(img) THEN "base64"
    ELSE "unrecognised"

\* image_data after lines 1916-1948: "bytes" (response.content), "MIMEImage",
\* None (no branch entered), or "raise" when the branch raises:
\* group('base64_data') names a group the pattern does not have
image_data(img, ans) ==
    LET class == classify_image(img, ans.isfile) IN
    CASE class = "url" -> IF ans.io = "ok" THEN "bytes" ELSE "raise"
      [] class = "file" -> IF ans.io = "ok" THEN "MIMEImage" ELSE "raise"
      [] class = "base64" -> "raise"
      [] class = "unrecognised" -> "raise"
      [] OTHER -> None

\* lines 1949-1950: image_data.add_header(...) works on a MIMEImage only
attach_raises(data) == data # "MIMEImage"

\* (an embed step that lets the exception through)
embed_handler_Reraise(img) ==
    [level |-> -1, attached |-> FALSE, raised |-> TRUE]

\* lines 1957-1959: except Exception: level = 2, the exception is dropped
embed_handler(img) ==
    [level |-> 2, attached |-> FALSE, raised |-> FALSE]

\* the whole step: the level it logs, whether the image was attached to the
\* message, and whether it raised
embed_image(img, ans) ==
    IF ~send_image THEN [level |-> 1, attached |-> FALSE, raised |-> FALSE]
    ELSE IF ~image_truthy(img)
    THEN [level |-> 1, attached |-> FALSE, raised |-> FALSE]
    ELSE IF image_data(img, ans) = "raise" \/ attach_raises(image_data(img, ans))
    THEN embed_handler(img)
    ELSE [level |-> 1, attached |-> TRUE, raised |-> FALSE]

\* what the step is remembered by: its inputs, the branch taken, its result
EmbedRecord(img, ans) ==
    [image |-> img, send_image |-> send_image,
     class |-> IF send_image /\ image_truthy(img)
               THEN classify_image(img, ans.isfile) ELSE "skipped",
     result |-> embed_image(img, ans)]

\* _get_receiver_and_sender, then _msg_build_email: the sub-step that raises
BuildAnswers == {"template", "header", "body", "ok"}

\* the answers that matter to this attempt: none before the body is built
BuildEmbedAnswers(t, how) ==
    IF how \in {"template", "header"} \/ ~send_image
          \/ ~image_truthy(params[t].image)
    THEN {[isfile |-> FALSE, io |-> "ok"]}
    ELSE {a \in EmbedAnswers : a.isfile \in isfile_answers(params[t].image)}

\* lines 1818-1821: the template file that is rendered
template_file == IF custom_on THEN custom_file ELSE default_file

Build(t, how, ans) ==
    /\ pc[t] = "build"
    /\ how \in BuildAnswers
    /\ (template_file = Missing) => how = "template"
    /\ ans \in BuildEmbedAnswers(t, how)
    /\ Log(t, CASE how = "template" -> <<"resolve", "template">>
                [] how = "header" -> <<"resolve", "template", "header">>
                [] OTHER -> <<"resolve", "template", "header", "body">>)
    /\ embed' = IF how \in {"template", "header"} THEN embed
                ELSE [embed EXCEPT ![t][smtp_value[t]] =
                        EmbedRecord(params[t].image, ans)]
    /\ IF how \in {"body", "ok"} /\ embed_image(params[t].image, ans).raised
       THEN Caught(t, "embed")
       ELSE IF how = "ok"
            THEN pc' = [pc EXCEPT ![t] = "transmit"] /\ UNCHANGED error
            ELSE Caught(t, how)
    /\ UNCHANGED <<cfgVars, conn, stored, lock, msg_type, image, smtp_value,
                   m_success, s_success, server, params, sess, outcome,
                   summary, touched, sent>>

\* _send_msg_to_smtp: sendmail succeeds, is refused on the open session, or
\* finds the session dropped (the library closes it)
TransmitAnswers == {"ok", "refused", "disconnected"}

\* lines 1603-1606: the success path of _send_to_smtp
SuccessReturn(t) ==
    /\ ReturnAttempt(t, "True")
    /\ UNCHANGED sess

Transmit(t, how) ==
    /\ pc[t] = "transmit"
    /\ how \in TransmitAnswers
    /\ Log(t, <<"send">>)
    /\ IF how = "ok"
       THEN SuccessReturn(t) /\ UNCHANGED error
       ELSE /\ Caught(t, "send")
            /\ SetSess(t, IF how = "disconnected" THEN "closed" ELSE "open")
            /\ UNCHANGED <<m_success, s_success>>
    /\ UNCHANGED <<cfgVars, conn, stored, lock, msg_type, image, smtp_value,
                   server, params, outcome, summary, touched, embed, sent>>

\* server.quit() on a session: it raises when the session is already
\* dropped, and may raise when the server drops it during QUIT; the library
\* closes the socket either way
QuitAnswers(st) == IF st = "open" THEN {"ok", "raise"} ELSE {"raise"}

\* (an except block that never quits the session)
CleanupNeeded_Never(t) == FALSE

\* line 1608: if server:
CleanupNeeded(t) == server[t] # None

\* lines 1607-1613: except Exception: if server: server.quit(); return False
Except(t, how) ==
    /\ pc[t] = "except"
    /\ IF CleanupNeeded(t)
       THEN /\ how \in QuitAnswers(sess[t][smtp_value[t]])
            /\ Log(t, <<"quit">>)
            /\ SetSess(t, "closed")
            /\ IF how = "ok"
               THEN ReturnAttempt(t, "False") /\ UNCHANGED outcome
               ELSE Raise(t, "attempt_raised") /\ UNCHANGED <<m_success, s_success>>
       ELSE /\ how = "ok"
            /\ ReturnAttempt(t, "False")
            /\ UNCHANGED <<outcome, sess, stages>>
    /\ UNCHANGED <<cfgVars, conn, stored, lock, msg_type, image, smtp_value,
                   server, params, error, summary, touched, embed, sent>>

\* ----------------------------------------------------- _generate_result_log
\* (a reduction that words a test run like a normal send)
result_msg_PlainWording(m, s) ==
    IF m = "True" THEN "main_succeeded"
    ELSE IF m = "False"
    THEN IF s = "True" THEN "secondary_succeeded_main_failed"
         ELSE IF s = "False" THEN "all_failed"
              ELSE "main_failed_secondary_not_started"
    ELSE "raise"

\* (a reduction that reports a failover as a double failure)
result_msg_FailoverLost(m, s) ==
    IF m = "True" THEN "main_succeeded"
    ELSE IF m = "False" THEN "all_failed"
    ELSE "raise"

\* the summary sentence for an outcome pair; "raise" where the code raises
result_msg(m, s) ==
    IF m = "True"
    THEN IF s = "True" THEN (IF test THEN "all_succeeded" ELSE None)
         ELSE IF s = "False"
              THEN (IF test THEN "main_succeeded_secondary_failed" ELSE None)
              ELSE (IF test THEN "main_succeeded_secondary_not_started"
                    ELSE "main_succeeded")
    ELSE IF m = "False"
    THEN IF s = "True" THEN "secondary_succeeded_main_failed"
         ELSE IF s = "False" THEN "all_failed"
              ELSE "main_failed_secondary_not_started"
    ELSE "raise"

\* line 1524: msg = self._generate_result_log(m_success, s_success)
Report(t) ==
    /\ pc[t] = "report"
    /\ IF result_msg(m_success[t], s_success[t]) = "raise"
       THEN Raise(t, "report_raised") /\ UNCHANGED summary
       ELSE /\ summary' = [summary EXCEPT ![t] =
                    [msg |-> result_msg(m_success[t], s_success[t]),
                     test_wording |-> test,
                     returned |-> IF test
                                  THEN result_msg(m_success[t], s_success[t])
                                  ELSE None]]
            /\ outcome' = [outcome EXCEPT ![t] = "returned"]
            /\ pc' = [pc EXCEPT ![t] = "done"]
    /\ UNCHANGED <<cfgVars, conn, stored, lock, msg_type, image, smtp_value,
                   m_success, s_success, server, params, sess, stages, error,
                   embed, touched, sent>>

\* (a lock that an exception leaves held)
Leave_LockKeptOnRaise(t) ==
    /\ pc[t] \in {"done", "raised"}
    /\ lock' = IF pc[t] = "raised" THEN lock ELSE NoThread
    /\ pc' = [pc EXCEPT ![t] =
                IF t = InitThread /\ pc[t] = "done" THEN "after_test"
                ELSE "idle"]
    /\ ForgetDispatch(t)
    /\ touched' = FALSE
    /\ UNCHANGED <<cfgVars, conn, stored, sent>>

\* line 1525, or the exception in flight: the "with lock" block is left,
\* which releases the lock, and master_program's frame is gone.  A test run
\* that returned goes on in _run_plugin; an event's send() returns; an
\* exception unwinds send() or init_plugin.
Leave(t) ==
    /\ pc[t] \in {"done", "raised"}
    /\ lock' = NoThread
    /\ pc' = [pc EXCEPT ![t] =
                IF t = InitThread /\ pc[t] = "done" THEN "after_test"
                ELSE "idle"]
    /\ ForgetDispatch(t)
    /\ touched' = FALSE
    /\ UNCHANGED <<cfgVars, conn, stored, sent>>

\* ------------------------------------------------------------------ system
\* the host's event threads deliver events
EventsFrom(inputs) == \E t \in Senders, e \in inputs : Send(t, e)
Events == EventsFrom(EventInputs)

\* the steps of _run_plugin and of a dispatch, by whichever thread runs it
StepsWith(renames) ==
    \/ \E ans \in renames : Templates(ans)
    \/ RunPlugin
    \/ \E t \in Threads : Acquire(t)
    \/ \E t \in Threads : CheckMain(t)
    \/ \E t \in Threads : Validate(t)
    \/ \E t \in Threads : Config(t)
    \/ \E t \in Threads, how \in ConnectAnswers : Connect(t, how)
    \/ \E t \in Threads, how \in BuildAnswers, ans \in EmbedAnswers :
            Build(t, how, ans)
    \/ \E t \in Threads, how \in TransmitAnswers : Transmit(t, how)
    \/ \E t \in Threads, how \in {"ok", "raise"} : Except(t, how)
    \/ \E t \in Threads : CheckSecondary(t)
    \/ \E t \in Threads : DetermineSecondary(t)
    \/ \E t \in Threads : Report(t)
    \/ \E t \in Threads : Leave(t)

Steps == StepsWith(RenameAnswers)
\* the steps on an installation whose plugin directory and data directory
\* are on different file systems: the default template cannot be renamed
StepsAcrossDevices == StepsWith({"fail"})

\* The plugin with the failover flags reconfigured at any time.
Next ==
    \/ \E given \in BOOLEAN, config \in FlagConfigs : InitPlugin(given, config)
    \/ AfterTest
    \/ Events
    \/ Steps

Spec == Init /\ [][Next]_vars

\* The plugin with both servers enabled and their settings reconfigured at
\* any time; no test run is asked for.
NextSettings ==
    \/ \E given \in BOOLEAN, config \in SettingsConfigs :
            InitPlugin(given, config)
    \/ Events
    \/ StepsAcrossDevices

SpecSettings == Init /\ [][NextSettings]_vars

\* The plugin with both servers enabled, image sending switched on and off,
\* and events that carry every kind of image.
NextImage ==
    \/ \E given \in BOOLEAN, config \in ImageConfigs :
            InitPlugin(given, config)
    \/ AfterTest
    \/ EventsFrom(ImageEvents)
    \/ StepsAcrossDevices

SpecImage == Init /\ [][NextImage]_vars

\* The plugin with the notification-type filter and the allow-unrecognised
\* flag reconfigured at any time, and events of every type.
NextTypes ==
    \/ \E given \in BOOLEAN, config \in TypeConfigs :
            InitPlugin(given, config)
    \/ AfterTest
    \/ EventsFrom(TypeEvents)
    \/ StepsAcrossDevices

SpecTypes == Init /\ [][NextTypes]_vars

\* The plugin with the template settings submitted at any time.
NextTemplate ==
    \/ \E given \in BOOLEAN, config \in TemplateConfigs :
            InitPlugin(given, config)
    \/ EventsFrom(PlainEvents)
    \/ Steps

SpecTemplate == Init /\ [][NextTemplate]_vars

\* The steps a thread takes inside "with lock": each of them returns (the
\* network calls have timeouts), and the thread is scheduled.
Run(t) ==
    \/ CheckMain(t)
    \/ Validate(t)
    \/ Config(t)
    \/ \E how \in ConnectAnswers : Connect(t, how)
    \/ \E how \in BuildAnswers, ans \in EmbedAnswers : Build(t, how, ans)
    \/ \E how \in TransmitAnswers : Transmit(t, how)
    \/ \E how \in {"ok", "raise"} : Except(t, how)
    \/ CheckSecondary(t)
    \/ DetermineSecondary(t)
    \/ Report(t)
    \/ Leave(t)

\* Spec with its scheduling: a running thread goes on, and a thread blocked
\* in "with lock" gets the lock when it is released again and again.
NextLive ==
    \/ \E given \in BOOLEAN, config \in FlagConfigs : InitPlugin(given, config)
    \/ AfterTest
    \/ EventsFrom(PlainEvents)
    \/ StepsAcrossDevices

SpecLive ==
    /\ Init /\ [][NextLive]_vars
    /\ \A t \in Threads : WF_vars(Run(t)) /\ SF_vars(Acquire(t))

\* ------------------------------------------------------------- properties
Range(seq) == {seq[i] : i \in 1..Len(seq)}

\* _send_to_smtp was called for the slot in this dispatch, and how often
Attempted(t, v) == stages[t][v] # <<>>
Attempts(t, v) ==
    Cardinality({i \in 1..Len(stages[t][v]) : stages[t][v][i] = "validate"})

\* the attempt on the slot has returned its outcome to master_program
AttemptReturned(t, v) ==
    IF v = 0 THEN m_success[t] # None ELSE s_success[t] # None

\* the dispatch was started by _run_plugin (a test run), not by send()
IsTestRun(t) == t = InitThread

\* the thread is inside "with lock"
InDispatch(t) ==
    pc[t] \in {"main", "validate", "config", "connect", "build", "transmit",
               "except", "secondary", "determine", "report", "done", "raised"}

\* server selection of the dispatch is over
Selected(t) == pc[t] \in {"report", "done"}
Ended(t) == pc[t] \in {"report", "done", "raised"}

\* C1: in a dispatch whose primary attempt succeeded, the secondary server is
\* attempted if and only if the dispatch is a test run and the secondary is
\* enabled; a dispatch started by send() never attempts it after a primary
\* success.  (Dispatches during which the flags were rewritten are left out.)
C1_SecondaryAfterPrimarySuccess ==
    \A t \in Threads :
        (Selected(t) /\ ~touched /\ m_success[t] = "True")
            => (Attempted(t, 1) <=> (IsTestRun(t) /\ secondary))

\* C2: in a dispatch whose primary attempt failed, at whatever stage, with
\* the secondary server enabled, the secondary is attempted exactly once, on
\* test and non-test runs alike.
C2_SecondaryAfterPrimaryFailure ==
    \A t \in Threads :
        (Ended(t) /\ ~touched /\ error[t][0] # None /\ secondary)
            => Attempts(t, 1) = 1

\* C3: with the primary server disabled and the secondary enabled, a dispatch
\* attempts the secondary server, as its first attempt.
C3_SecondaryAsFirstAttempt ==
    \A t \in Threads :
        (Ended(t) /\ ~touched /\ ~main /\ secondary)
            => (Attempted(t, 1) /\ ~Attempted(t, 0))

\* C4: at most one thread is inside the dispatch pipeline (master_program's
\* locked region, both server attempts included) at any time.
C4_MutualExclusion ==
    \A t1 \in Threads, t2 \in Threads :
        (t1 # t2) => ~(InDispatch(t1) /\ InDispatch(t2))

\* C4 witness: one thread is transmitting while another waits for the lock.
C4_Witness ==
    \E t1 \in Threads, t2 \in Threads :
        t1 # t2 /\ pc[t1] = "lock" /\ pc[t2] = "transmit"

\* C5: master_program never raises to its caller.
C5_NeverRaises ==
    \A t \in Threads : pc[t] # "raised"

\* C6: no exception leaves _send_to_smtp: every attempt returns a boolean.
C6_AttemptNeverRaises ==
    \A t \in Threads : outcome[t] # "attempt_raised"

\* C7: an attempt that reached transmission and has returned has its session
\* closed, whether the transmission succeeded or failed.
C7_SessionClosedAfterTransmission ==
    \A t \in Threads, v \in Slots :
        (AttemptReturned(t, v) /\ "send" \in Range(stages[t][v]))
            => sess[t][v] = "closed"

\* C8: when the connect/authenticate stage fails, no message is built for
\* the attempt and no session is left open.
C8_ConnectFailureClosesSession ==
    \A t \in Threads, v \in Slots :
        error[t][v] = "connect"
            => /\ "template" \notin Range(stages[t][v])
               /\ sess[t][v] # "open"

\* C9: when template rendering, header assembly or body assembly fails, the
\* session opened by the attempt is closed once the attempt is over, and the
\* attempt transmits nothing.
C9_BuildFailureClosesSession ==
    \A t \in Threads, v \in Slots :
        (/\ error[t][v] \in {"template", "header", "body"}
         /\ ~(pc[t] = "except" /\ smtp_value[t] = v))
            => /\ sess[t][v] = "closed"
               /\ "send" \notin Range(stages[t][v])

\* C9 witness: a primary attempt whose template rendering failed has quit
\* the session and returned False.
C9_Witness ==
    \E t \in Threads :
        /\ error[t][0] = "template"
        /\ m_success[t] = "False"
        /\ "quit" \in Range(stages[t][0])

\* C10: configuration resolution fails when a required field of the slot is
\* unset: no attempt gets past it, or opens a network connection, with a
\* required field unset.
C10_IncompleteConfigurationDetected ==
    \A t \in Threads :
        (\/ pc[t] \in {"connect", "build", "transmit"}
         \/ (InDispatch(t) /\ sess[t][smtp_value[t]] # "none"))
            => \A f \in RequiredFields : conn[f] # None

\* number of connection attempts the dispatch made on a slot
Connections(t, v) ==
    Cardinality({i \in 1..Len(stages[t][v]) : stages[t][v][i] = "connect"})

\* C11: a dispatch started by send() for an event whose type is not an
\* enumerated type, with the allow-unrecognised flag off, fails every attempt
\* at validation: no attempt of it reaches the connect stage or opens a
\* session.
C11_UnrecognisedTypeRejected ==
    \A t \in Senders, v \in Slots :
        (/\ InDispatch(t) /\ ~touched
         /\ msg_type[t] = "Other" /\ ~other_msgtypes
         /\ Attempted(t, v))
            => /\ "connect" \notin Range(stages[t][v])
               /\ sess[t][v] = "none"

\* C12: send() of an event that carries a channel changes nothing of the
\* plugin's state: no dispatch starts, the lock is not taken, no flag changes.
C12_ChannelEventIsNoOp ==
    [][\A t \in Senders, e \in EventInputs :
          (e.data /\ e.channel /\ Send(t, e)) => UNCHANGED progVars]_vars

\* C12 witness: the plugin is enabled and the last event was ignored for its
\* channel.
C12_Witness ==
    enabled /\ sent = "channel"

\* C13: send() of an event with neither title nor text starts no dispatch,
\* so no connection is attempted for it on either server.
C13_BlankEventRejected ==
    [][\A t \in Senders, e \in EventInputs :
          (~e.title /\ ~e.text /\ Send(t, e))
              => (pc'[t] = "idle" /\ UNCHANGED <<sess, stages, lock>>)]_vars

\* C13 witness: the plugin is enabled and the last event was rejected for
\* having neither title nor text.
C13_Witness ==
    enabled /\ sent = "rejected"

\* C14: no thread is inside the dispatch pipeline while both the primary and
\* the secondary server are disabled.
C14_NoDispatchWithBothDisabled ==
    \A t \in Threads : InDispatch(t) => (main \/ secondary)

\* C15: with at least one server enabled, the outcome pair handed to
\* _generate_result_log is never (None, None).
C15_OutcomePairNeverEmpty ==
    \A t \in Threads :
        (pc[t] = "report" /\ ~touched /\ (main \/ secondary))
            => ~(m_success[t] = None /\ s_success[t] = None)

\* C16: the image-embedding step never raises and never fails the attempt;
\* with image sending on and an image given, a step that attached nothing
\* logs a warning (level 2); with image sending off or no image given it
\* attaches nothing and logs no warning.
C16_EmbedFailureIsNonFatal ==
    \A t \in Threads, v \in Slots :
        LET r == embed[t][v] IN
        (r.class # None)
            => /\ ~r.result.raised
               /\ error[t][v] # "embed"
               /\ (r.send_image /\ image_truthy(r.image) /\ ~r.result.attached)
                     => r.result.level = 2
               /\ (~r.send_image \/ ~image_truthy(r.image))
                     => (r.result.level = 1 /\ ~r.result.attached)

\* C16 witness: an attempt whose embedding failed with a warning has sent
\* its message.
C16_Witness ==
    \E t \in Threads :
        /\ embed[t][0].class = "unrecognised"
        /\ embed[t][0].result.level = 2
        /\ m_success[t] = "True"

\* C17: the image is classified base64 data URI first, then URL with a
\* network scheme, then existing local file, then raw bytes, otherwise
\* unrecognised.
C17_ImageClassificationPriority ==
    \A t \in Threads, v \in Slots :
        LET r == embed[t][v] IN
        (r.class \notin {None, "skipped"})
            => r.class \in
                 (CASE r.image \in {"datauri", "datauri_file"} -> {"base64"}
                    [] r.image \in {"url", "url_file"} -> {"url"}
                    [] r.image = "file" -> {"file"}
                    [] r.image = "bytes" -> {"bytes"}
                    [] r.image = test_image -> {"file", "unrecognised"}
                    [] OTHER -> {"unrecognised"})

\* C18: a test run that returns hands its caller the sentence of its outcome
\* pair in test wording; with the primary enabled and succeeding and the
\* secondary disabled it made one connection attempt and returns the
\* "primary succeeded, secondary not started" sentence.
C18_TestRunSummary ==
    \A t \in Threads :
        (IsTestRun(t) /\ pc[t] = "done")
            => /\ summary[t].test_wording
               /\ summary[t].returned =
                    (CASE m_success[t] = "True" /\ s_success[t] = "True"
                            -> "all_succeeded"
                       [] m_success[t] = "True" /\ s_success[t] = "False"
                            -> "main_succeeded_secondary_failed"
                       [] m_success[t] = "True" /\ s_success[t] = None
                            -> "main_succeeded_secondary_not_started"
                       [] m_success[t] = "False" /\ s_success[t] = "True"
                            -> "secondary_succeeded_main_failed"
                       [] m_success[t] = "False" /\ s_success[t] = "False"
                            -> "all_failed"
                       [] m_success[t] = "False" /\ s_success[t] = None
                            -> "main_failed_secondary_not_started"
                       [] OTHER -> "no sentence")
               /\ (main /\ ~secondary /\ m_success[t] = "True")
                     => /\ Connections(t, 0) + Connections(t, 1) = 1
                        /\ summary[t].returned =
                              "main_succeeded_secondary_not_started"

\* C18 witness: a test run with the secondary disabled whose primary attempt
\* succeeded has returned.
C18_Witness ==
    /\ pc[InitThread] = "done"
    /\ main /\ ~secondary
    /\ m_success[InitThread] = "True"
    /\ s_success[InitThread] = None

\* C19: a dispatch that is not a test run computes a summary only when the
\* primary succeeded or both servers failed.
C19_NormalRunSummaryPolicy ==
    \A t \in Senders :
        (pc[t] = "done" /\ ~touched /\ ~test /\ summary[t].msg # None)
            => \/ m_success[t] = "True"
               \/ (m_success[t] = "False" /\ s_success[t] = "False")

\* C20: when the primary attempt failed at transmission, its session is
\* closed before the secondary attempt starts, and when the secondary then
\* succeeds the summary is the "secondary succeeded, primary failed"
\* sentence.
C20_FailoverAfterTransmissionFailure ==
    \A t \in Threads :
        (error[t][0] = "send")
            => /\ Attempted(t, 1) => sess[t][0] = "closed"
               /\ (pc[t] = "done" /\ s_success[t] = "True")
                     => summary[t].msg = "secondary_succeeded_main_failed"

\* C20 witness: the primary failed at transmission, the secondary succeeded
\* and the dispatch has computed its summary.
C20_Witness ==
    \E t \in Threads :
        /\ error[t][0] = "send"
        /\ s_success[t] = "True"
        /\ pc[t] = "done"

\* C21: no server slot is attempted more than once in a dispatch, and a slot
\* that is disabled is not attempted and keeps the outcome "not attempted".
C21_OneAttemptPerServer ==
    \A t \in Threads :
        /\ \A v \in Slots : Attempts(t, v) <= 1
        /\ (InDispatch(t) /\ ~touched /\ ~main)
              => (~Attempted(t, 0) /\ m_success[t] = None)
        /\ (InDispatch(t) /\ ~touched /\ ~secondary)
              => (~Attempted(t, 1) /\ s_success[t] = None)

\* C21 witness: a dispatch with the secondary disabled has ended after one
\* failed attempt on the primary.
C21_Witness ==
    \E t \in Senders :
        /\ pc[t] = "done" /\ ~touched /\ ~secondary
        /\ m_success[t] = "False"
        /\ Attempts(t, 0) = 1

\* C22: when init_plugin has finished, the test flag of an enabled plugin is
\* off, in memory and in the persisted configuration.
C22_TestRunIsOneShot ==
    (pc[InitThread] = "idle")
        => /\ ~(enabled /\ test)
           /\ ~(stored.enabled /\ stored.test)

\* the stages of an attempt, in the order of _send_to_smtp
StageOrder ==
    <<"validate", "config", "connect", "resolve", "template", "header",
      "body", "send">>
\* the stages an attempt ran, without the cleanup
StagesRun(t, v) ==
    LET st == stages[t][v] IN
    IF st # <<>> /\ st[Len(st)] = "quit" THEN SubSeq(st, 1, Len(st) - 1)
    ELSE st

\* C23: the stages of an attempt run in the order validation, config
\* lookup, connect, recipient/sender resolution, construction (template,
\* header, body), transmission, none skipped; the stage that failed is the
\* last one that ran.
C23_StageOrder ==
    \A t \in Threads, v \in Slots :
        LET run == StagesRun(t, v) IN
        /\ Len(run) <= Len(StageOrder)
        /\ run = SubSeq(StageOrder, 1, Len(run))
        /\ (error[t][v] # None)
              => run[Len(run)] =
                   (IF error[t][v] = "embed" THEN "body" ELSE error[t][v])

\* C23 witness: an attempt that failed while the header was built has
\* returned.
C23_Witness ==
    \E t \in Threads :
        /\ error[t][0] = "header"
        /\ m_success[t] = "False"

\* C26: a dispatch started by send() never uses the synthetic test content:
\* what validation returns for it is the event's own.
C26_EventNeverSentAsTestMail ==
    \A t \in Senders : ~params[t].synthetic

C24_MessageTypeResolution ==
    \A t \in Threads :
        (InDispatch(t) /\ ~touched)
            => /\ (params[t].msg_type # None)
                     => params[t].msg_type =
                          (IF IsTestRun(t) THEN "test_mail"
                           ELSE IF msg_type[t] \in NotificationTypes
                                THEN "value_" \o msg_type[t]
                           ELSE IF msg_type[t] = None THEN ""
                           ELSE msg_type[t])
               /\ (~IsTestRun(t) /\ msg_type[t] = "Other" /\ ~other_msgtypes)
                     => \A v \in Slots :
                          Attempted(t, v) => "config" \notin Range(stages[t][v])

\* C29: with a non-empty type filter, send() starts no dispatch for an event
\* whose type is an enumerated type that is not in the filter.
C29_FilteredTypeNeverDispatched ==
    [][\A t \in Senders, e \in TypeEvents :
          (/\ msgtypes # {}
           /\ e.type \in NotificationTypes /\ e.type \notin msgtypes
           /\ Send(t, e))
              => pc'[t] = "idle"]_vars

\* C25: when init_plugin has run _template_settings, the save and restore
\* flags are both off; with save set (restore set or not) the custom template
\* file holds the submitted content, with only restore set it holds the text
\* of the default template.
C25_TemplateFlagsOneShot ==
    [][\A ans \in RenameAnswers :
          (Templates(ans) /\ ~check_template_file(TemplateState, ans).raised)
              => /\ ~save' /\ ~reset'
                 /\ save => custom_file' = content
                 /\ (~save /\ reset) => custom_file' = "default"]_vars

\* C30: the default template file exists with its original content.
C30_DefaultTemplateKept ==
    default_file = "default"

====
